---- MODULE Spec2Model ----
(***************************************************************************)
(* Realtime synchronisation layer of the AI chat orchestrator client:      *)
(* WebSocketService (services/websocket.ts), the conversation slice of the *)
(* redux store (store/slices/conversationSlice.ts) and the startup code of *)
(* App.tsx that drives the transport.                                      *)
(*                                                                         *)
(* The browser runs every handler to completion on one event loop, so one  *)
(* action is one handler run: a public method call, a timer callback, the  *)
(* continuation of an awaited fetch, or a socket event.                    *)
(***************************************************************************)
EXTENDS Integers, Sequences, FiniteSets, TLC

(***************************************************************************)
(* Bounds of the model.                                                    *)
(***************************************************************************)
MaxSockets == 2         \* WebSocket objects not yet closed at the same time
MaxTimers == 1          \* reconnect timers pending at the same time
MaxProbes == 2          \* connect() calls suspended in the reachability probe
MaxCounter == 10        \* largest value of reconnectAttempts explored
MaxHandlers == 1        \* callbacks registered through on() at the same time
MaxSubscribers == 3     \* the same, where the order of the callbacks matters
MaxConversations == 1   \* conversations in the store
MaxStoreConversations == 2 \* the same, where conversations are also branched
MaxMessages == 2        \* messages in one conversation
MaxTimeouts == 1        \* setTimeout callbacks of the controls pending at once
MaxIntervals == 1       \* setInterval timers of the controls alive at once

(***************************************************************************)
(* Program constants of WebSocketService.                                  *)
(***************************************************************************)
maxReconnectAttempts == 5
reconnectDelay == 1000
maxDelay == 30000

EventTypes == {"connected"}
Callbacks == {"cb1"}
Subscribers == {"cb1", "cb2", "cb3"}
\* The event types a callback is registered for: the lifecycle event and a
\* decoded frame type.
SubscriberTypes == EventTypes \cup {"persona_registered"}
SendTypes == {"register_persona"}

\* Values of the store and of inbound frames.
UNDEFINED == "undefined"             \* the JavaScript value undefined
Placeholder == "..."
ShortText == "Hello"
LongText == "A reply that is far longer than the text before it"
MidText == "Hello, and twenty more..."    \* exactly 20 characters longer than ShortText
ConvIds == {"c1"}
UnknownConv == "c9"
MsgIdOf(k) ==
    <<"m1", "m2", "m3", "m4", "m5", "m6", "m7", "m8", "m9", "m10", "m11",
      "m12", "m13", "m14", "m15", "m16">>[k]
BranchIds == {"b1"}
UnknownMsg == "m0"

\* The conversation the ConversationControls component is mounted for, its
\* participants (persona ids, in order) and the values of the turn status.
propConversationId == "c1"
participants == <<"P1", "P2">>
Statuses == {"idle", "generating", "paused", "stopped"}
TimeoutKinds == {"startAutoMode", "handleSendMessage"}
TimeoutKeys == TimeoutKinds \X Statuses

VARIABLES
    isEnabled,          \* WebSocketService.isEnabled
    socket,             \* WebSocketService.socket: the object it refers to
    orphans,            \* WebSocket objects still alive that the handle no
                        \* longer refers to: state -> how many
    reconnectAttempts,  \* WebSocketService.reconnectAttempts
    eventHandlers,      \* WebSocketService.eventHandlers: type -> callbacks
    timers,             \* pending setTimeout callbacks of attemptReconnect
    probes,             \* connect() calls awaiting checkBackendAvailability
    scheduled,          \* delays passed to setTimeout in the last step
    notified,           \* addNotification types dispatched in the last step
    delivered,          \* callbacks invoked by dispatchEvent in the last step
    sent,               \* envelopes handed to WebSocket.send in the last step
    conversations,      \* state.conversations.conversations
    conversationStatus, \* state.conversations.conversationStatus
    uuids,              \* how many ids uuidv4 has handed out
    personas,           \* state.personas.personas: the ids of the personas
    isAutoMode,         \* ConversationControls: the isAutoMode state
    autoModeRef,        \* autoModeRef.current: "null", or the interval it
                        \* refers to, given by the status its callback closed over
    strayIntervals,     \* intervals still running that autoModeRef no longer
                        \* refers to: closed-over status -> how many
    timeouts,           \* pending setTimeout callbacks of the controls:
                        \* <<handler that set it, closed-over status>> -> how many
    isConnected,        \* BackendStatusIndicator: the isConnected state
    lastOp              \* the handler that ran in the last step, and its result

vars == <<isEnabled, socket, orphans, reconnectAttempts, eventHandlers, timers,
          probes, scheduled, notified, delivered, sent, conversations,
          conversationStatus, uuids, personas, isAutoMode, autoModeRef,
          strayIntervals, timeouts, isConnected, lastOp>>

\* lastOp: the handler and its boolean input or result.
Op(name, flag) == [op |-> name, ok |-> flag]

(***************************************************************************)
(* A WebSocket object: its readyState and whether its open event has       *)
(* fired.  NoSocket stands for the null handle.                            *)
(***************************************************************************)
Sock(rs, opened) == [readyState |-> rs, opened |-> opened]
NoSocket == Sock("NONE", FALSE)
OrphanStates ==
    {Sock("CONNECTING", FALSE), Sock("OPEN", TRUE),
     Sock("CLOSING", FALSE), Sock("CLOSING", TRUE)}

RECURSIVE Pow(_, _)
Pow(b, k) == IF k = 0 THEN 1 ELSE b * Pow(b, k - 1)

RECURSIVE SumOver(_, _)
SumOver(f, S) ==
    IF S = {} THEN 0
    ELSE LET x == CHOOSE y \in S : TRUE IN f[x] + SumOver(f, S \ {x})

(***************************************************************************)
(* The state as one record, so that a handler is the composition of the    *)
(* methods it calls.  scheduled, notified, delivered and sent start empty  *)
(* in every handler run.                                                   *)
(***************************************************************************)
Cur ==
    [isEnabled |-> isEnabled, socket |-> socket, orphans |-> orphans,
     reconnectAttempts |-> reconnectAttempts, eventHandlers |-> eventHandlers,
     timers |-> timers, probes |-> probes, scheduled |-> <<>>,
     notified |-> <<>>, delivered |-> <<>>, sent |-> <<>>,
     conversations |-> conversations,
     conversationStatus |-> conversationStatus, uuids |-> uuids,
     personas |-> personas, isAutoMode |-> isAutoMode,
     autoModeRef |-> autoModeRef, strayIntervals |-> strayIntervals,
     timeouts |-> timeouts, isConnected |-> isConnected]

\* WebSocket objects that can still raise an event.
NumSockets(t) ==
    SumOver(t.orphans, OrphanStates)
    + (IF t.socket.readyState \in {"CONNECTING", "OPEN", "CLOSING"} THEN 1 ELSE 0)

NumHandlers(t) ==
    SumOver([e \in SubscriberTypes |-> Len(t.eventHandlers[e])],
            SubscriberTypes)

NumTimeouts(t) == SumOver(t.timeouts, TimeoutKeys)

NumIntervals(t) ==
    SumOver(t.strayIntervals, Statuses)
    + (IF t.autoModeRef # "null" THEN 1 ELSE 0)

WithinBounds(t) ==
    /\ NumSockets(t) <= MaxSockets
    /\ t.timers <= MaxTimers
    /\ t.probes <= MaxProbes
    /\ t.reconnectAttempts <= MaxCounter
    /\ \A i \in 1..Len(t.conversations) :
            Len(t.conversations[i].messages) <= MaxMessages
    /\ NumTimeouts(t) <= MaxTimeouts
    /\ NumIntervals(t) <= MaxIntervals

Apply(t, op) ==
    /\ WithinBounds(t)
    /\ isEnabled' = t.isEnabled
    /\ socket' = t.socket
    /\ orphans' = t.orphans
    /\ reconnectAttempts' = t.reconnectAttempts
    /\ eventHandlers' = t.eventHandlers
    /\ timers' = t.timers
    /\ probes' = t.probes
    /\ scheduled' = t.scheduled
    /\ notified' = t.notified
    /\ delivered' = t.delivered
    /\ sent' = t.sent
    /\ conversations' = t.conversations
    /\ conversationStatus' = t.conversationStatus
    /\ uuids' = t.uuids
    /\ personas' = t.personas
    /\ isAutoMode' = t.isAutoMode
    /\ autoModeRef' = t.autoModeRef
    /\ strayIntervals' = t.strayIntervals
    /\ timeouts' = t.timeouts
    /\ isConnected' = t.isConnected
    /\ lastOp' = op

\* The handle lets go of object x: x lives on, unreferenced, unless it is
\* CLOSED (a closed socket raises no further event).
Release(t, x) ==
    IF x \in OrphanStates
    THEN [t EXCEPT !.orphans[x] = @ + 1]
    ELSE t

(***************************************************************************)
(* store.dispatch(addNotification({type, ...})) of uiSlice.                *)
(***************************************************************************)
AddNotification(t, type) ==
    [t EXCEPT !.notified = Append(@, type)]

(***************************************************************************)
(* WebSocketService.dispatchEvent: every callback registered for the event *)
(* is invoked once with data, in registration order.  A delivery is        *)
(* <<event, callback, data>>.                                              *)
(***************************************************************************)
DispatchEventToFirst(t, event, data) ==
    IF event \in SubscriberTypes /\ Len(t.eventHandlers[event]) > 0
    THEN [t EXCEPT !.delivered =
            Append(@, <<event, t.eventHandlers[event][1], data>>)]
    ELSE t

DispatchEvent(t, event, data) ==
    IF event \in SubscriberTypes
    THEN [t EXCEPT !.delivered = @ \o
            [i \in 1..Len(t.eventHandlers[event]) |->
                <<event, t.eventHandlers[event][i], data>>]]
    ELSE t

(***************************************************************************)
(* The delay of attemptReconnect for counter value n, as the fraction      *)
(* <<numerator, denominator>> of milliseconds:                             *)
(*   Math.min(reconnectDelay * Math.pow(1.5, n - 1), 30000).               *)
(* 1.5^(n-1) = 3^(n-1) / 2^(n-1) is exact in double precision here.        *)
(***************************************************************************)
ReconnectDelayDoubling(n) ==
    LET num == reconnectDelay * Pow(2, n - 1)
    IN  IF num <= maxDelay THEN <<num, 1>> ELSE <<maxDelay, 1>>

ReconnectDelay(n) ==
    LET num == reconnectDelay * Pow(3, n - 1)
        den == Pow(2, n - 1)
    IN  IF num <= maxDelay * den THEN <<num, den>> ELSE <<maxDelay, 1>>

(***************************************************************************)
(* WebSocketService.attemptReconnect: count the attempt, schedule connect. *)
(***************************************************************************)
AttemptReconnectDelayBeforeCount(t) ==
    LET n == t.reconnectAttempts + 1 IN
    [t EXCEPT !.reconnectAttempts = n,
              !.timers = @ + 1,
              !.scheduled = Append(@, ReconnectDelay(n + 1))]

AttemptReconnect(t) ==
    LET n == t.reconnectAttempts + 1 IN
    [t EXCEPT !.reconnectAttempts = n,
              !.timers = @ + 1,
              !.scheduled = Append(@, ReconnectDelay(n))]

(***************************************************************************)
(* WebSocketService.connect up to its await: returns at once when the      *)
(* transport is disabled, else suspends in checkBackendAvailability.       *)
(* probes counts the suspended calls.                                      *)
(***************************************************************************)
Connect(t) ==
    IF ~t.isEnabled THEN t
    ELSE [t EXCEPT !.probes = @ + 1]

(***************************************************************************)
(* WebSocketService.disconnect.  close() moves a CONNECTING or OPEN socket *)
(* to CLOSING; the close event follows in a later step.                    *)
(***************************************************************************)
Close(x) ==
    IF x.readyState \in {"CONNECTING", "OPEN"}
    THEN [x EXCEPT !.readyState = "CLOSING"]
    ELSE x

Disconnect(t) ==
    IF t.socket # NoSocket
    THEN Release([t EXCEPT !.socket = NoSocket], Close(t.socket))
    ELSE t

(***************************************************************************)
(* WebSocketService.setEnabled.                                            *)
(***************************************************************************)
SetEnabled(t, enabled) ==
    LET t1 == [t EXCEPT !.isEnabled = enabled] IN
    IF enabled /\ t1.socket = NoSocket THEN Connect(t1)
    ELSE IF ~enabled /\ t1.socket # NoSocket THEN Disconnect(t1)
    ELSE t1

(***************************************************************************)
(* WebSocketService.on and off.  A type without an entry and a type with   *)
(* an empty array behave alike in on, off and dispatchEvent; both are the  *)
(* empty sequence here.                                                    *)
(***************************************************************************)
On(t, event, callback) ==
    [t EXCEPT !.eventHandlers[event] = Append(@, callback)]

OffClearsType(t, event, callback) ==
    [t EXCEPT !.eventHandlers[event] = <<>>]

Off(t, event, callback) ==
    IF callback = "none"
    THEN [t EXCEPT !.eventHandlers[event] = <<>>]
    ELSE [t EXCEPT !.eventHandlers[event] =
            SelectSeq(@, LAMBDA cb : cb # callback)]

(***************************************************************************)
(* WebSocketService.send: transmits the envelope <<type, data>> only on an *)
(* OPEN socket.  The result is [ok, t], ok being the value returned.  Of   *)
(* data the model keeps the id it carries: a persona or a conversation.    *)
(***************************************************************************)
SendWithoutReadyCheck(t, type, data) ==
    IF t.socket # NoSocket
    THEN [ok |-> TRUE, t |-> [t EXCEPT !.sent = Append(@, <<type, data>>)]]
    ELSE [ok |-> FALSE, t |-> t]

Send(t, type, data) ==
    IF t.socket # NoSocket /\ t.socket.readyState = "OPEN"
    THEN [ok |-> TRUE, t |-> [t EXCEPT !.sent = Append(@, <<type, data>>)]]
    ELSE [ok |-> FALSE, t |-> t]

(***************************************************************************)
(* The continuation of connect after the probe (lines 51-128).             *)
(*   isAvailable: the result of checkBackendAvailability;                  *)
(*   throws: whether new WebSocket(url) raises, which the catch block of   *)
(*           connect handles.                                              *)
(***************************************************************************)
ConnectResumeRetryOnProbeFailure(t, isAvailable, throws) ==
    IF ~isAvailable
    THEN IF t.isEnabled THEN AttemptReconnect(t) ELSE t
    ELSE IF throws
    THEN IF t.isEnabled THEN AttemptReconnect(t) ELSE t
    ELSE Release([t EXCEPT !.socket = Sock("CONNECTING", FALSE)], t.socket)

ConnectResume(t, isAvailable, throws) ==
    IF ~isAvailable
    THEN IF t.reconnectAttempts = 0 THEN AddNotification(t, "info") ELSE t
    ELSE IF throws
    THEN IF t.isEnabled THEN AttemptReconnect(t) ELSE t
    ELSE Release([t EXCEPT !.socket = Sock("CONNECTING", FALSE)], t.socket)

(***************************************************************************)
(* socket.onopen.                                                          *)
(***************************************************************************)
OnOpen(t) ==
    AddNotification(
        DispatchEvent([t EXCEPT !.reconnectAttempts = 0], "connected", "null"),
        "success")

(***************************************************************************)
(* socket.onerror and socket.onclose.                                      *)
(***************************************************************************)
OnError(t) == DispatchEvent(t, "error", "error")

OnClose(t, wasClean) ==
    LET t1 == DispatchEvent(t, "disconnected", "code and reason") IN
    IF ~wasClean /\ t1.reconnectAttempts < maxReconnectAttempts /\ t1.isEnabled
    THEN AttemptReconnect(t1)
    ELSE t1

(***************************************************************************)
(* The setTimeout callback of attemptReconnect.                            *)
(***************************************************************************)
ReconnectTimer(t) ==
    IF t.socket.readyState # "OPEN" /\ t.isEnabled
    THEN Connect(t)
    ELSE t

(***************************************************************************)
(* The conversation slice.  A message is [id, senderType, content,         *)
(* metadata]; metadata is undefined (defined = FALSE) or an object whose   *)
(* isGenerating is "true", "false" or "absent" and that may carry an       *)
(* error string.  A conversationStatus entry is absent (status "absent")   *)
(* or [status, lastMessageId].  Timestamps (created, updated, timestamp)   *)
(* are left out: nothing reads them.                                       *)
(***************************************************************************)
NoMeta == [defined |-> FALSE, isGenerating |-> "absent", error |-> FALSE]
Meta(isGenerating, error) ==
    [defined |-> TRUE, isGenerating |-> isGenerating, error |-> error]
NoStatus == [status |-> "absent", lastMessageId |-> UNDEFINED]

\* Array.prototype.findIndex: the first index whose element has the id, 0
\* (for -1) when there is none.
FindIndex(seq, id) ==
    IF \E i \in 1..Len(seq) : seq[i].id = id
    THEN CHOOSE i \in 1..Len(seq) :
            /\ seq[i].id = id
            /\ \A j \in 1..(i - 1) : seq[j].id # id
    ELSE 0

\* JavaScript truthiness of a string-or-undefined value.
Truthy(v) == v # UNDEFINED /\ v # ""

(***************************************************************************)
(* conversationSlice.createConversation with an explicit id.               *)
(***************************************************************************)
CreateConversation(t, id) ==
    [t EXCEPT !.conversations = Append(@, [id |-> id, messages |-> <<>>]),
              !.conversationStatus[id] =
                  [status |-> "idle", lastMessageId |-> UNDEFINED]]

\* createConversation with the id the payload carries, or with
\* id: action.payload.id || uuidv4() when it carries none.
CreateConversationFromPayload(t, id) ==
    IF Truthy(id) THEN CreateConversation(t, id)
    ELSE LET new == MsgIdOf(t.uuids + 1) IN
         [t EXCEPT !.uuids = @ + 1,
                   !.conversations =
                        Append(@, [id |-> new, messages |-> <<>>]),
                   !.conversationStatus =
                        (new :> [status |-> "idle",
                                 lastMessageId |-> UNDEFINED]) @@ @]

(***************************************************************************)
(* conversationSlice.createBranch: when the parent and the message exist,  *)
(* the branch, a conversation with the id branchId and the parent's        *)
(* messages up to that message, is pushed to the conversations.  It gets   *)
(* no conversationStatus entry.  The copy kept in parent.branches is left  *)
(* out: nothing reads it.                                                  *)
(***************************************************************************)
CreateBranch(t, parentId, branchId, startFromMessageId) ==
    LET pi == FindIndex(t.conversations, parentId) IN
    IF pi = 0 THEN t
    ELSE LET mi == FindIndex(t.conversations[pi].messages, startFromMessageId)
         IN  IF mi = 0 THEN t
             ELSE [t EXCEPT !.conversations =
                    Append(@, [id |-> branchId,
                               messages |->
                                 SubSeq(t.conversations[pi].messages, 1, mi)])]

(***************************************************************************)
(* conversationSlice.addMessage.                                           *)
(***************************************************************************)
AddMessageAlwaysIdle(t, conversationId, senderType, content) ==
    LET ci == FindIndex(t.conversations, conversationId)
        id == MsgIdOf(t.uuids + 1)
        t1 == [t EXCEPT !.uuids = @ + 1]
    IN  IF ci = 0 THEN t
        ELSE [t1 EXCEPT !.conversations[ci].messages =
                            Append(@, [id |-> id, senderType |-> senderType,
                                       content |-> content,
                                       metadata |-> NoMeta]),
                        !.conversationStatus[conversationId] =
                            [status |-> "idle", lastMessageId |-> id]]

AddMessage(t, conversationId, senderType, content) ==
    LET ci == FindIndex(t.conversations, conversationId)
        id == MsgIdOf(t.uuids + 1)
        t1 == [t EXCEPT !.uuids = @ + 1]
    IN  IF ci = 0 THEN t
        ELSE LET t2 == [t1 EXCEPT !.conversations[ci].messages =
                            Append(@, [id |-> id, senderType |-> senderType,
                                       content |-> content,
                                       metadata |-> NoMeta])]
             IN  IF senderType = "user"
                 THEN [t2 EXCEPT !.conversationStatus[conversationId] =
                            [status |-> "idle", lastMessageId |-> id]]
                 ELSE t2

(***************************************************************************)
(* conversationSlice.updateMessage.  The payload is [id, conversationId,   *)
(* hasContent, content, hasMetadata, metadata]: a key that is present      *)
(* overwrites the field, also with undefined.  The result is [threw, t]:   *)
(* evaluating prevContent.length on an undefined prevContent raises a      *)
(* TypeError inside the reducer, and a reducer that raises leaves the      *)
(* store as it was.                                                        *)
(***************************************************************************)
Payload(id, conversationId, hasContent, content, hasMetadata, metadata) ==
    [id |-> id, conversationId |-> conversationId,
     hasContent |-> hasContent, content |-> content,
     hasMetadata |-> hasMetadata, metadata |-> metadata]

UpdateMessageMovesToEnd(t, p) ==
    LET ci == FindIndex(t.conversations, p.conversationId) IN
    IF ci = 0 THEN [threw |-> FALSE, t |-> t]
    ELSE
    LET mi == FindIndex(t.conversations[ci].messages, p.id) IN
    IF mi = 0 THEN [threw |-> FALSE, t |-> t]
    ELSE
    LET prev == t.conversations[ci].messages[mi]
        merged == [prev EXCEPT
                    !.content = IF p.hasContent THEN p.content ELSE @,
                    !.metadata = IF p.hasMetadata THEN p.metadata ELSE @]
    IN  [threw |-> FALSE,
         t |-> [t EXCEPT !.conversations[ci].messages =
                    Append(SubSeq(@, 1, mi - 1)
                           \o SubSeq(@, mi + 1, Len(@)), merged)]]

UpdateMessageAppendsContent(t, p) ==
    LET ci == FindIndex(t.conversations, p.conversationId) IN
    IF ci = 0 THEN [threw |-> FALSE, t |-> t]
    ELSE
    LET mi == FindIndex(t.conversations[ci].messages, p.id) IN
    IF mi = 0 THEN [threw |-> FALSE, t |-> t]
    ELSE
    LET prev == t.conversations[ci].messages[mi]
        merged == [prev EXCEPT
                    !.content = IF p.hasContent /\ Truthy(p.content)
                                   /\ Truthy(@) /\ @ # Placeholder
                                THEN @ \o p.content
                                ELSE IF p.hasContent THEN p.content ELSE @,
                    !.metadata = IF p.hasMetadata THEN p.metadata ELSE @]
    IN  [threw |-> FALSE,
         t |-> [t EXCEPT !.conversations[ci].messages[mi] = merged]]

UpdateMessageFromTwentyLonger(t, p) ==
    LET ci == FindIndex(t.conversations, p.conversationId) IN
    IF ci = 0 THEN [threw |-> FALSE, t |-> t]
    ELSE
    LET mi == FindIndex(t.conversations[ci].messages, p.id) IN
    IF mi = 0 THEN [threw |-> FALSE, t |-> t]
    ELSE
    LET prev == t.conversations[ci].messages[mi]
        prevContent == prev.content
        newContent == IF p.hasContent THEN p.content ELSE UNDEFINED
        reachesLength ==
            Truthy(newContent) /\ prevContent # newContent
            /\ prevContent # Placeholder
        isCompleteMessage ==
            /\ Truthy(newContent)
            /\ prevContent # newContent
            /\ \/ prevContent = Placeholder
               \/ Len(newContent) >= Len(prevContent) + 20
        merged == [prev EXCEPT
                    !.content = IF p.hasContent THEN p.content ELSE @,
                    !.metadata = IF p.hasMetadata THEN p.metadata ELSE @]
        t1 == [t EXCEPT !.conversations[ci].messages[mi] = merged]
    IN  IF reachesLength /\ prevContent = UNDEFINED
        THEN [threw |-> TRUE, t |-> t]
        ELSE IF isCompleteMessage /\ p.hasMetadata /\ p.metadata.defined
                /\ p.metadata.isGenerating = "false"
        THEN [threw |-> FALSE,
              t |-> [t1 EXCEPT !.conversationStatus[p.conversationId] =
                        [status |-> "idle", lastMessageId |-> p.id]]]
        ELSE [threw |-> FALSE, t |-> t1]

UpdateMessage(t, p) ==
    LET ci == FindIndex(t.conversations, p.conversationId) IN
    IF ci = 0 THEN [threw |-> FALSE, t |-> t]
    ELSE
    LET mi == FindIndex(t.conversations[ci].messages, p.id) IN
    IF mi = 0 THEN [threw |-> FALSE, t |-> t]
    ELSE
    LET prev == t.conversations[ci].messages[mi]
        prevContent == prev.content
        newContent == IF p.hasContent THEN p.content ELSE UNDEFINED
        reachesLength ==
            Truthy(newContent) /\ prevContent # newContent
            /\ prevContent # Placeholder
        isCompleteMessage ==
            /\ Truthy(newContent)
            /\ prevContent # newContent
            /\ \/ prevContent = Placeholder
               \/ Len(newContent) > Len(prevContent) + 20
        merged == [prev EXCEPT
                    !.content = IF p.hasContent THEN p.content ELSE @,
                    !.metadata = IF p.hasMetadata THEN p.metadata ELSE @]
        t1 == [t EXCEPT !.conversations[ci].messages[mi] = merged]
    IN  IF reachesLength /\ prevContent = UNDEFINED
        THEN [threw |-> TRUE, t |-> t]
        ELSE IF isCompleteMessage /\ p.hasMetadata /\ p.metadata.defined
                /\ p.metadata.isGenerating = "false"
        THEN [threw |-> FALSE,
              t |-> [t1 EXCEPT !.conversationStatus[p.conversationId] =
                        [status |-> "idle", lastMessageId |-> p.id]]]
        ELSE [threw |-> FALSE, t |-> t1]

(***************************************************************************)
(* Inbound frames.  A frame is the text the socket delivers; JSON.parse    *)
(* raises on text that is no JSON (wellFormed = FALSE).  The fields of a   *)
(* decoded envelope that the handlers read:                                *)
(*   type; conversationId, messageId, chunk (message_chunk);               *)
(*   hasMessage and message.id, .conversationId, .content, .metadata       *)
(*   (message_complete); message, details (error), where detailsKey tells  *)
(*   which of details.messageId and details.id is set.                     *)
(***************************************************************************)
Frame(wellFormed, type, conversationId, id, content, metadata, hasMessage, detailsKey) ==
    [wellFormed |-> wellFormed, type |-> type,
     conversationId |-> conversationId, id |-> id, content |-> content,
     metadata |-> metadata, hasMessage |-> hasMessage,
     detailsKey |-> detailsKey]

Parse(frame) ==
    IF frame.wellFormed
    THEN [ok |-> TRUE, data |-> frame]
    ELSE [ok |-> FALSE, data |-> frame]

(***************************************************************************)
(* WebSocketService.handleMessageChunk, handleMessageComplete and          *)
(* handleError; each yields [threw, t].                                    *)
(***************************************************************************)
HandleMessageChunk(t, data) ==
    UpdateMessage(t, Payload(data.id, data.conversationId,
                             TRUE, data.content, FALSE, NoMeta))

HandleMessageComplete(t, data) ==
    IF data.hasMessage
    THEN UpdateMessage(t,
            Payload(data.id,
                    IF Truthy(data.conversationId) THEN data.conversationId
                    ELSE data.id,
                    TRUE, data.content, TRUE, data.metadata))
    ELSE [threw |-> FALSE, t |-> t]

HandleErrorOverwritesContent(t, data) ==
    LET t1 == AddNotification(t, "error") IN
    IF data.detailsKey \in {"messageId", "id"} /\ Truthy(data.conversationId)
    THEN UpdateMessage(t1, Payload(data.id, data.conversationId,
                                   TRUE, "Failed to generate response",
                                   TRUE, Meta("absent", TRUE)))
    ELSE [threw |-> FALSE, t |-> t1]

HandleError(t, data) ==
    LET t1 == AddNotification(t, "error") IN
    IF data.detailsKey \in {"messageId", "id"} /\ Truthy(data.conversationId)
    THEN UpdateMessage(t1, Payload(data.id, data.conversationId,
                                   FALSE, UNDEFINED, TRUE, Meta("absent", TRUE)))
    ELSE [threw |-> FALSE, t |-> t1]

(***************************************************************************)
(* socket.onmessage: decode, route by type; the catch block swallows what  *)
(* JSON.parse or a handler raises.  Yields [threw, t], threw telling that  *)
(* the catch block ran.  Callbacks registered through on() are taken to    *)
(* return normally.                                                        *)
(***************************************************************************)
OnMessageCloseOnError(t, frame) ==
    LET parsed == Parse(frame) IN
    IF ~parsed.ok THEN [threw |-> TRUE, t |-> Disconnect(t)]
    ELSE IF parsed.data.type = "message_chunk"
    THEN HandleMessageChunk(t, parsed.data)
    ELSE IF parsed.data.type = "message_complete"
    THEN HandleMessageComplete(t, parsed.data)
    ELSE IF parsed.data.type = "error"
    THEN HandleError(t, parsed.data)
    ELSE [threw |-> FALSE,
          t |-> DispatchEvent(t, parsed.data.type, parsed.data)]

OnMessage(t, frame) ==
    LET parsed == Parse(frame) IN
    IF ~parsed.ok THEN [threw |-> TRUE, t |-> t]
    ELSE IF parsed.data.type = "message_chunk"
    THEN HandleMessageChunk(t, parsed.data)
    ELSE IF parsed.data.type = "message_complete"
    THEN HandleMessageComplete(t, parsed.data)
    ELSE IF parsed.data.type = "error"
    THEN HandleError(t, parsed.data)
    ELSE [threw |-> FALSE,
          t |-> DispatchEvent(t, parsed.data.type, parsed.data)]

\* The frames the backend is taken to send.
FrameConvs == ConvIds \cup {UnknownConv}
FrameMsgs(t) == {MsgIdOf(k) : k \in 1..t.uuids} \cup {UnknownMsg}
FrameContents == {UNDEFINED, ShortText, LongText}
FrameMetas == {NoMeta, Meta("false", FALSE), Meta("true", FALSE)}
ErrorFrames(t) ==
    {Frame(TRUE, "error", c, m, UNDEFINED, NoMeta, FALSE, k) :
        c \in FrameConvs \cup {UNDEFINED}, m \in FrameMsgs(t),
        k \in {"messageId", "id", "none"}}
Frames(t) ==
    {Frame(FALSE, "", UNDEFINED, UNDEFINED, UNDEFINED, NoMeta, FALSE, "none")}
    \cup {Frame(TRUE, "message_chunk", c, m, x, NoMeta, FALSE, "none") :
            c \in FrameConvs, m \in FrameMsgs(t), x \in FrameContents}
    \cup {Frame(TRUE, "message_complete", c, m, x, md, TRUE, "none") :
            c \in FrameConvs \cup {UNDEFINED}, m \in FrameMsgs(t),
            x \in FrameContents, md \in FrameMetas}
    \cup {Frame(TRUE, "message_complete", UNDEFINED, UNDEFINED, UNDEFINED,
                NoMeta, FALSE, "none")}
    \cup ErrorFrames(t)
    \cup {Frame(TRUE, ty, UNDEFINED, UNDEFINED, UNDEFINED, NoMeta, FALSE, "none") :
            ty \in SubscriberTypes \cup {"pong"}}

\* The frames the backend is taken to send during a multi-agent turn: the
\* completion of a message of the conversation, the two events that report
\* that no speaker could be resolved, and the event that names the next
\* speaker (its next_speaker_id in the id field): a participant or a
\* persona nobody knows.
UnknownPersona == "P9"
TurnFrames(t) ==
    {Frame(TRUE, "message_complete", propConversationId, m, LongText,
           Meta("false", FALSE), TRUE, "none") : m \in FrameMsgs(t)}
    \cup {Frame(TRUE, ty, propConversationId, UNDEFINED, UNDEFINED, NoMeta,
                FALSE, "none") :
            ty \in {"multi_agent_persona_not_found",
                    "multi_agent_no_next_speaker"}}
    \cup {Frame(TRUE, "multi_agent_next_turn", propConversationId, p,
                UNDEFINED, NoMeta, FALSE, "none") :
            p \in {participants[i] : i \in 1..Len(participants)}
                  \cup {UnknownPersona}}

\* The frames that update a message: chunks and completions whose content
\* is empty, short, exactly 20 characters longer than the short one, or
\* longer still.
UpdateContents == {"", ShortText, MidText, LongText}
UpdateFrames(t) ==
    {Frame(TRUE, "message_chunk", c, m, x, NoMeta, FALSE, "none") :
        c \in FrameConvs, m \in FrameMsgs(t), x \in UpdateContents}
    \cup {Frame(TRUE, "message_complete", c, m, x, md, TRUE, "none") :
            c \in FrameConvs, m \in FrameMsgs(t), x \in UpdateContents,
            md \in FrameMetas}

(***************************************************************************)
(* conversationSlice.setConversationStatus: replaces the entry, keeping    *)
(* its lastMessageId.                                                      *)
(***************************************************************************)
SetConversationStatus(t, conversationId, status) ==
    [t EXCEPT !.conversationStatus[conversationId] =
        [status |-> status, lastMessageId |-> @.lastMessageId]]

(***************************************************************************)
(* personaSlice.deletePersona: the conversations keep the id among their   *)
(* participants.                                                           *)
(***************************************************************************)
DeletePersona(t, id) == [t EXCEPT !.personas = @ \ {id}]

(***************************************************************************)
(* ConversationControls.  Every function of the component is a closure     *)
(* over the values of the render that created it: st is the turn status    *)
(* that render selected from the store, auto its isAutoMode.  A handler     *)
(* the user interface invokes belongs to the latest render, so st and auto *)
(* are the current values; a setTimeout or setInterval callback keeps the  *)
(* values of the render in which the timer was set.  autoModeRef is a ref, *)
(* read at the time of use.                                                *)
(***************************************************************************)
\* useSelector(... conversationStatus[conversationId] || {status: "idle"}).
StatusOf(t) ==
    IF t.conversationStatus[propConversationId].status = "absent"
    THEN "idle"
    ELSE t.conversationStatus[propConversationId].status

ClearAutoModeInterval(t) ==
    IF t.autoModeRef # "null" THEN [t EXCEPT !.autoModeRef = "null"] ELSE t

ResetConversation(t, auto) ==
    LET t1 == SetConversationStatus(t, propConversationId, "idle") IN
    IF auto
    THEN [ClearAutoModeInterval(t1) EXCEPT !.isAutoMode = FALSE]
    ELSE t1

\* send() returns false rather than raising, so the catch block never runs.
TriggerNextTurn(t, st) ==
    IF st \in {"generating", "paused", "stopped"} THEN t
    ELSE Send(SetConversationStatus(t, propConversationId, "generating"),
              "multi_agent_next_turn", propConversationId).t

\* participants.forEach: one register_persona for each participant whose
\* persona the store holds, in the order of participants.
RECURSIVE RegisterPersonasOfAllParticipants(_, _)
RegisterPersonasOfAllParticipants(t, i) ==
    IF i > Len(participants) THEN t
    ELSE RegisterPersonasOfAllParticipants(
            Send(t, "register_persona", participants[i]).t, i + 1)

RECURSIVE RegisterPersonas(_, _)
RegisterPersonas(t, i) ==
    IF i > Len(participants) THEN t
    ELSE RegisterPersonas(
            IF participants[i] \in t.personas
            THEN Send(t, "register_persona", participants[i]).t
            ELSE t,
            i + 1)

SetTimeout(t, kind, st) == [t EXCEPT !.timeouts[<<kind, st>>] = @ + 1]

StartAutoMode(t, st, auto) ==
    LET t1 == IF st \in {"paused", "stopped"}
              THEN ResetConversation(t, auto) ELSE t
        t2 == [t1 EXCEPT !.isAutoMode = TRUE]
    IN  SetTimeout(RegisterPersonas(t2, 1), "startAutoMode", st)

StopAutoMode(t) == ClearAutoModeInterval([t EXCEPT !.isAutoMode = FALSE])

\* The interval callback set up by startAutoMode.
AutoModeInterval(t, st) ==
    IF st \notin {"generating", "paused", "stopped"}
    THEN TriggerNextTurn(t, st)
    ELSE t

\* The setTimeout callback of startAutoMode: the first turn, then the
\* interval, whose handle overwrites autoModeRef.current.
StartAutoModeTimeout(t, st) ==
    LET t1 == IF st # "generating" THEN TriggerNextTurn(t, st) ELSE t
        t2 == IF t1.autoModeRef # "null"
              THEN [t1 EXCEPT !.strayIntervals[t1.autoModeRef] = @ + 1]
              ELSE t1
    IN  [t2 EXCEPT !.autoModeRef = st]

HandleSendMessage(t, st, auto) ==
    LET t1 == AddMessage(t, propConversationId, "user", ShortText)
        t2 == SetConversationStatus(t1, propConversationId, "idle")
    IN  IF auto THEN SetTimeout(t2, "handleSendMessage", st) ELSE t2

HandlePause(t, st, auto) ==
    IF st = "paused"
    THEN LET t1 == SetConversationStatus(t, propConversationId, "idle")
         IN  IF auto THEN StartAutoMode(t1, st, auto) ELSE t1
    ELSE LET t1 == SetConversationStatus(t, propConversationId, "paused")
         IN  IF auto THEN ClearAutoModeInterval(t1) ELSE t1

HandleStop(t, auto) ==
    LET t1 == SetConversationStatus(t, propConversationId, "stopped")
        t2 == IF auto
              THEN [ClearAutoModeInterval(t1) EXCEPT !.isAutoMode = FALSE]
              ELSE t1
    IN  Send(t2, "stop_generation", propConversationId).t

(***************************************************************************)
(* The browser moves a WebSocket object from state x to state y: the       *)
(* object the handle refers to (where = "handle") or an unreferenced one.  *)
(***************************************************************************)
Targets(t) ==
    {<<"handle", t.socket>>}
    \cup {<<"orphan", x>> : x \in {y \in OrphanStates : t.orphans[y] > 0}}

Move(t, where, x, y) ==
    IF where = "handle"
    THEN [t EXCEPT !.socket = y]
    ELSE Release([t EXCEPT !.orphans[x] = @ - 1], y)

(***************************************************************************)
(* BackendStatusIndicator.checkBackendStatus after its fetch.  seen is the *)
(* isConnected of the render that created the function; outcome tells      *)
(* whether the fetch answered OK ("ok"), answered another status ("notOk")  *)
(* or raised ("raised").  The catch block handles what the fetch raises;    *)
(* connect() handles its own errors.                                       *)
(***************************************************************************)
CheckBackendStatus(t, seen, outcome) ==
    IF outcome = "raised"
    THEN SetEnabled([t EXCEPT !.isConnected = FALSE], FALSE)
    ELSE LET newStatus == (outcome = "ok")
             t1 == [t EXCEPT !.isConnected = newStatus]
             t2 == IF ~seen /\ newStatus
                   THEN Connect(SetEnabled(t1, TRUE))
                   ELSE t1
         IN  IF seen /\ ~newStatus THEN SetEnabled(t2, FALSE) ELSE t2

Init ==
    /\ isEnabled = FALSE
    /\ socket = NoSocket
    /\ orphans = [x \in OrphanStates |-> 0]
    /\ reconnectAttempts = 0
    /\ eventHandlers = [e \in SubscriberTypes |-> <<>>]
    /\ timers = 0
    /\ probes = 0
    /\ scheduled = <<>>
    /\ notified = <<>>
    /\ delivered = <<>>
    /\ sent = <<>>
    /\ conversations = <<>>
    /\ conversationStatus = [c \in ConvIds |-> NoStatus]
    /\ uuids = 0
    /\ personas = {}
    /\ isAutoMode = FALSE
    /\ autoModeRef = "null"
    /\ strayIntervals = [s \in Statuses |-> 0]
    /\ timeouts = [k \in TimeoutKeys |-> 0]
    /\ isConnected = FALSE
    /\ lastOp = Op("init", FALSE)

\* A caller invokes setEnabled(enabled).
DoSetEnabled ==
    \E enabled \in BOOLEAN :
        Apply(SetEnabled(Cur, enabled), Op("setEnabled", enabled))

\* A caller invokes connect(); lastOp.ok tells whether it was enabled.
DoConnect ==
    Apply(Connect(Cur), Op("connect", isEnabled))

\* A caller invokes disconnect() (App.tsx does on unmount).
DoDisconnect ==
    Apply(Disconnect(Cur), Op("disconnect", socket # NoSocket))

\* App.tsx checkAndConnectWebsocket after its own fetch: setEnabled(true)
\* and connect() run back to back when the backend answered, else
\* setEnabled(false).
CheckAndConnectWebsocket ==
    \E ok \in BOOLEAN :
        Apply(IF ok THEN Connect(SetEnabled(Cur, TRUE))
                    ELSE SetEnabled(Cur, FALSE),
              Op("checkAndConnectWebsocket", ok))

\* A caller invokes send(type, data); lastOp.ok is the value returned.
DoSend ==
    \E type \in SendTypes :
        LET r == Send(Cur, type, participants[1])
        IN  Apply(r.t, Op("send", r.ok))

\* A caller invokes on(event, callback) or off(event, callback?).
DoOn ==
    \E event \in EventTypes, callback \in Callbacks :
        /\ NumHandlers(Cur) < MaxHandlers
        /\ Apply(On(Cur, event, callback), Op("on", TRUE))

DoOff ==
    \E event \in EventTypes, callback \in Callbacks \cup {"none"} :
        Apply(Off(Cur, event, callback), Op("off", callback # "none"))

\* The same calls made by several subscribers, each with its own callback.
DoOnSubscriber ==
    \E event \in SubscriberTypes, callback \in Subscribers :
        /\ NumHandlers(Cur) < MaxSubscribers
        /\ Apply(On(Cur, event, callback), Op("on", TRUE))

DoOffSubscriber ==
    \E event \in SubscriberTypes, callback \in Subscribers \cup {"none"} :
        Apply(Off(Cur, event, callback), Op("off", callback # "none"))

\* The reachability probe of a suspended connect() completes; lastOp.ok
\* tells whether the transport was enabled at that moment.
ProbeDone ==
    \E isAvailable \in BOOLEAN, throws \in BOOLEAN :
        /\ probes > 0
        /\ ~isAvailable => ~throws
        /\ Apply(ConnectResume([Cur EXCEPT !.probes = @ - 1],
                               isAvailable, throws),
                 Op(IF ~isAvailable THEN "probeFailed"
                    ELSE IF throws THEN "connectThrew" ELSE "socketCreated",
                    isEnabled))

\* The handshake of a CONNECTING socket succeeds: the open event.
SocketOpen ==
    \E tg \in Targets(Cur) :
        /\ tg[2].readyState = "CONNECTING"
        /\ Apply(OnOpen(Move(Cur, tg[1], tg[2], Sock("OPEN", TRUE))),
                 Op("onopen", tg[1] = "handle"))

\* A socket closes: the close event, after the error event when the
\* connection failed.  A socket that never opened cannot close cleanly.
SocketClose ==
    \E tg \in Targets(Cur), wasClean \in BOOLEAN :
        /\ tg[2].readyState \in {"CONNECTING", "OPEN", "CLOSING"}
        /\ wasClean => tg[2].opened
        /\ LET t1 == Move(Cur, tg[1], tg[2], Sock("CLOSED", tg[2].opened))
               t2 == IF wasClean THEN t1 ELSE OnError(t1)
           IN  Apply(OnClose(t2, wasClean), Op("onclose", wasClean))

\* A reconnect timer fires; lastOp.ok tells whether it called connect().
TimerFire ==
    /\ timers > 0
    /\ Apply(ReconnectTimer([Cur EXCEPT !.timers = @ - 1]),
             Op("reconnectTimer", socket.readyState # "OPEN" /\ isEnabled))

\* An OPEN socket delivers a frame: socket.onmessage.  lastOp.op tells
\* whether the frame was no JSON ("onmessageBadFrame") or an error envelope
\* ("onmessageError"), and lastOp.ok whether it was handled without the
\* catch block running.
Receive(frame) ==
    LET r == OnMessage(Cur, frame)
    IN  Apply(r.t, Op(IF ~frame.wellFormed THEN "onmessageBadFrame"
                      ELSE IF frame.type = "error" THEN "onmessageError"
                      ELSE "onmessage", ~r.threw))

SocketMessage ==
    \E tg \in Targets(Cur) :
        /\ tg[2].readyState = "OPEN"
        /\ \E frame \in Frames(Cur) : Receive(frame)

SocketMessageUpdates ==
    /\ socket.readyState = "OPEN"
    /\ \E frame \in UpdateFrames(Cur) : Receive(frame)

SocketMessageTurns ==
    /\ socket.readyState = "OPEN"
    /\ \E frame \in TurnFrames(Cur) : Receive(frame)

\* The user interface creates a conversation.
DoCreateConversation ==
    \E id \in ConvIds :
        /\ Len(conversations) < MaxConversations
        /\ Apply(CreateConversation(Cur, id), Op("createConversation", TRUE))

\* The same where several conversations are kept: with an explicit id or
\* without one; lastOp.ok tells whether the payload carried an id.
DoCreateConversationFromPayload ==
    \E id \in ConvIds \cup {UNDEFINED} :
        /\ Len(conversations) < MaxStoreConversations
        /\ Apply(CreateConversationFromPayload(Cur, id),
                 Op("createConversation", Truthy(id)))

\* The user interface branches a conversation at one of its messages;
\* lastOp.ok tells whether the parent and the message were found.
DoCreateBranch ==
    \E parentId \in ConvIds, branchId \in BranchIds \cup ConvIds,
       startFromMessageId \in FrameMsgs(Cur) :
        /\ Len(conversations) < MaxStoreConversations
        /\ Apply(CreateBranch(Cur, parentId, branchId, startFromMessageId),
                 Op("createBranch",
                    CreateBranch(Cur, parentId, branchId, startFromMessageId)
                        # Cur))

\* The user interface appends a message.
DoAddMessage ==
    \E c \in ConvIds, senderType \in {"user", "agent", "system"} :
        Apply(AddMessage(Cur, c, senderType,
                         IF senderType = "user" THEN ShortText ELSE Placeholder),
              Op("addMessage", FindIndex(conversations, c) # 0))

(***************************************************************************)
(* The controls of the conversation.  The component is mounted for an      *)
(* existing conversation; a control that is rendered disabled raises no    *)
(* event.                                                                  *)
(***************************************************************************)
Mounted == FindIndex(conversations, propConversationId) # 0

\* The Send button or Enter in the text area (disabled when stopped).
DoHandleSendMessage ==
    /\ Mounted
    /\ StatusOf(Cur) # "stopped"
    /\ Apply(HandleSendMessage(Cur, StatusOf(Cur), isAutoMode),
             Op("handleSendMessage", isAutoMode))

\* The Pause / Resume button (disabled when stopped); lastOp.ok tells
\* whether it resumed.
DoHandlePause ==
    /\ Mounted
    /\ StatusOf(Cur) # "stopped"
    /\ Apply(HandlePause(Cur, StatusOf(Cur), isAutoMode),
             Op("handlePause", StatusOf(Cur) = "paused"))

\* The Stop button (disabled when stopped).
DoHandleStop ==
    /\ Mounted
    /\ StatusOf(Cur) # "stopped"
    /\ Apply(HandleStop(Cur, isAutoMode), Op("handleStop", isAutoMode))

\* The Next Turn button (disabled in auto mode and unless idle).
DoTriggerNextTurn ==
    /\ Mounted
    /\ ~isAutoMode
    /\ StatusOf(Cur) = "idle"
    /\ Apply(TriggerNextTurn(Cur, StatusOf(Cur)), Op("triggerNextTurn", TRUE))

\* The Auto switch and the Start Auto / Stop Auto button (disabled when
\* stopped).
DoStartAutoMode ==
    /\ Mounted
    /\ ~isAutoMode
    /\ StatusOf(Cur) # "stopped"
    /\ Apply(StartAutoMode(Cur, StatusOf(Cur), isAutoMode),
             Op("startAutoMode", StatusOf(Cur) = "idle"))

DoStopAutoMode ==
    /\ Mounted
    /\ isAutoMode
    /\ StatusOf(Cur) # "stopped"
    /\ Apply(StopAutoMode(Cur), Op("stopAutoMode", autoModeRef # "null"))

\* A setTimeout callback of the controls runs; lastOp.ok tells whether the
\* status it closed over was idle.
ControlsTimeout ==
    \E k \in TimeoutKeys :
        /\ timeouts[k] > 0
        /\ LET t1 == [Cur EXCEPT !.timeouts[k] = @ - 1]
           IN  IF k[1] = "startAutoMode"
               THEN Apply(StartAutoModeTimeout(t1, k[2]),
                          Op("startAutoModeTimeout", k[2] = "idle"))
               ELSE Apply(TriggerNextTurn(t1, k[2]),
                          Op("handleSendMessageTimeout", k[2] = "idle"))

\* An auto-mode interval ticks: the one autoModeRef refers to or a stray
\* one; lastOp.ok tells whether the status it closed over was idle.
AutoModeTick ==
    \E st \in Statuses :
        /\ autoModeRef = st \/ strayIntervals[st] > 0
        /\ Apply(AutoModeInterval(Cur, st), Op("autoModeTick", st = "idle"))

\* The persona manager deletes a persona.
DoDeletePersona ==
    \E id \in personas :
        Apply(DeletePersona(Cur, id), Op("deletePersona", TRUE))

\* The probe of the availability monitor completes: the one started on
\* mount or one started by the 30 s interval.  useEffect(..., []) runs once,
\* so both call the checkBackendStatus of the first render, whose
\* isConnected is the initial state, false.  lastOp.ok is response.ok.
MonitorProbe ==
    \E outcome \in {"ok", "notOk", "raised"} :
        Apply(CheckBackendStatus(Cur, FALSE, outcome),
              Op(IF outcome = "raised" THEN "checkBackendStatusCatch"
                 ELSE "checkBackendStatus", outcome = "ok"))

Next ==
    \/ DoSetEnabled
    \/ DoConnect
    \/ DoDisconnect
    \/ CheckAndConnectWebsocket
    \/ DoSend
    \/ DoOn
    \/ DoOff
    \/ ProbeDone
    \/ SocketOpen
    \/ SocketClose
    \/ TimerFire

Spec == Init /\ [][Next]_vars

(***************************************************************************)
(* The router and the store on an established connection: the transport    *)
(* has been enabled and its socket has opened.                             *)
(***************************************************************************)
InitRouter ==
    /\ isEnabled = TRUE
    /\ socket = Sock("OPEN", TRUE)
    /\ orphans = [x \in OrphanStates |-> 0]
    /\ reconnectAttempts = 0
    /\ eventHandlers = [e \in SubscriberTypes |-> <<>>]
    /\ timers = 0
    /\ probes = 0
    /\ scheduled = <<>>
    /\ notified = <<>>
    /\ delivered = <<>>
    /\ sent = <<>>
    /\ conversations = <<>>
    /\ conversationStatus = [c \in ConvIds |-> NoStatus]
    /\ uuids = 0
    /\ personas = {}
    /\ isAutoMode = FALSE
    /\ autoModeRef = "null"
    /\ strayIntervals = [s \in Statuses |-> 0]
    /\ timeouts = [k \in TimeoutKeys |-> 0]
    /\ isConnected = FALSE
    /\ lastOp = Op("init", FALSE)

NextRouter ==
    \/ SocketMessage
    \/ DoCreateConversation
    \/ DoAddMessage
    \/ DoSend

SpecRouter == InitRouter /\ [][NextRouter]_vars

(***************************************************************************)
(* The router and the subscribers of on(), on an established connection:   *)
(* callbacks are registered and removed while frames arrive, until the     *)
(* application disconnects.                                                *)
(***************************************************************************)
NextDispatch ==
    \/ SocketMessage
    \/ DoOnSubscriber
    \/ DoOffSubscriber
    \/ DoSend
    \/ DoCreateConversation
    \/ DoDisconnect

SpecDispatch == InitRouter /\ [][NextDispatch]_vars

(***************************************************************************)
(* The turn orchestration on an established connection: the controls of    *)
(* one conversation, the store and the frames of a turn.  The personas of  *)
(* the participants are in the persona store at the start.                 *)
(***************************************************************************)
InitTurns ==
    /\ isEnabled = TRUE
    /\ socket = Sock("OPEN", TRUE)
    /\ orphans = [x \in OrphanStates |-> 0]
    /\ reconnectAttempts = 0
    /\ eventHandlers = [e \in SubscriberTypes |-> <<>>]
    /\ timers = 0
    /\ probes = 0
    /\ scheduled = <<>>
    /\ notified = <<>>
    /\ delivered = <<>>
    /\ sent = <<>>
    /\ conversations = <<>>
    /\ conversationStatus = [c \in ConvIds |-> NoStatus]
    /\ uuids = 0
    /\ personas = {participants[i] : i \in 1..Len(participants)}
    /\ isAutoMode = FALSE
    /\ autoModeRef = "null"
    /\ strayIntervals = [s \in Statuses |-> 0]
    /\ timeouts = [k \in TimeoutKeys |-> 0]
    /\ isConnected = FALSE
    /\ lastOp = Op("init", FALSE)

NextTurns ==
    \/ DoCreateConversation
    \/ DoHandleSendMessage
    \/ DoHandlePause
    \/ DoHandleStop
    \/ DoTriggerNextTurn
    \/ DoStartAutoMode
    \/ DoStopAutoMode
    \/ ControlsTimeout
    \/ AutoModeTick
    \/ DoDeletePersona
    \/ SocketMessageTurns

SpecTurns == InitTurns /\ [][NextTurns]_vars

(***************************************************************************)
(* The conversation collection: conversations are created and branched,    *)
(* and messages are appended.                                              *)
(***************************************************************************)
NextStore ==
    \/ DoCreateConversationFromPayload
    \/ DoCreateBranch
    \/ DoAddMessage

SpecStore == InitRouter /\ [][NextStore]_vars

(***************************************************************************)
(* The turn orchestration while the connection may go away: the controls   *)
(* of the conversation and the frames of a turn, and the application       *)
(* disconnecting the transport.                                            *)
(***************************************************************************)
NextTurnsOffline ==
    \/ DoCreateConversation
    \/ DoDisconnect
    \/ DoHandleSendMessage
    \/ DoHandlePause
    \/ DoTriggerNextTurn
    \/ DoStartAutoMode
    \/ ControlsTimeout
    \/ SocketMessageTurns

SpecTurnsOffline == InitTurns /\ [][NextTurnsOffline]_vars

(***************************************************************************)
(* Message updates on an established connection: messages are appended,    *)
(* a turn is requested, and chunks and completions arrive.                 *)
(***************************************************************************)
NextUpdates ==
    \/ DoCreateConversation
    \/ DoAddMessage
    \/ DoTriggerNextTurn
    \/ SocketMessageUpdates

SpecUpdates == InitRouter /\ [][NextUpdates]_vars

(***************************************************************************)
(* The availability monitor driving the transport: its probes, and the     *)
(* connects, socket events and reconnect timers that follow from them.     *)
(***************************************************************************)
NextMonitor ==
    \/ MonitorProbe
    \/ ProbeDone
    \/ SocketOpen
    \/ SocketClose
    \/ TimerFire

SpecMonitor == Init /\ [][NextMonitor]_vars

(***************************************************************************)
(* Properties of the transport, checked under Spec.                        *)
(***************************************************************************)
Live(x) == x.readyState \in {"CONNECTING", "OPEN"}
LiveOrphans == orphans[Sock("CONNECTING", FALSE)] + orphans[Sock("OPEN", TRUE)]

\* The part of the transport that outlives a handler run.
transport == <<isEnabled, socket, orphans, reconnectAttempts, eventHandlers,
               timers, probes>>
store == <<conversations, conversationStatus, uuids>>

\* C1 (as claimed): reconnectAttempts counts the automatic reconnect attempts
\* made since the last successful open, and it never exceeds the ceiling of
\* 5, whichever path calls attemptReconnect.
C1_AtMostFiveAttempts == reconnectAttempts <= maxReconnectAttempts

\* C2 (as claimed): at every moment at most one socket has been created and
\* not closed: none lives on once the handle no longer refers to it.
C2_AtMostOneLiveSocket == LiveOrphans = 0

\* C3 (as claimed): while the transport is disabled (after setEnabled(false)
\* and until setEnabled(true)) no socket is CONNECTING or OPEN.
C3_NoLiveSocketWhileDisabled ==
    ~isEnabled => (~Live(socket) /\ LiveOrphans = 0)

\* C4 (as claimed): disconnect() and setEnabled(false) cancel the pending
\* reconnect timers, and the close event of a socket that disconnect() closed
\* schedules no reconnect.
C4_DisconnectStep ==
    /\ (lastOp'.op = "disconnect"
        \/ (lastOp'.op = "setEnabled" /\ ~lastOp'.ok)
        \/ (lastOp'.op = "checkAndConnectWebsocket" /\ ~lastOp'.ok))
       => timers' = 0
    /\ (lastOp'.op = "onclose"
        /\ \E x \in {Sock("CLOSING", FALSE), Sock("CLOSING", TRUE)} :
                orphans'[x] = orphans[x] - 1)
       => scheduled' = <<>>
C4_DisconnectCancelsReconnect == [][C4_DisconnectStep]_vars

\* C5: a send() called while the socket is not OPEN returns false and changes
\* nothing of the transport; an envelope is handed to the socket only in the
\* step of a send() call that finds the socket OPEN and returns true, so no
\* call's envelope goes out later.
C5_Step ==
    /\ (lastOp'.op = "send" /\ socket.readyState # "OPEN")
       => (~lastOp'.ok /\ sent' = <<>> /\ UNCHANGED transport
           /\ UNCHANGED store)
    /\ sent' # <<>>
       => (lastOp'.op = "send" /\ lastOp'.ok /\ socket.readyState = "OPEN"
           /\ Len(sent') = 1)
C5_SendWhileClosedHasNoEffect == [][C5_Step]_vars
C5_Witness ==
    /\ lastOp = Op("send", FALSE)
    /\ socket.readyState = "CONNECTING"
    /\ reconnectAttempts > 0

\* C6: connect() called while the transport is disabled, and a connect()
\* whose reachability probe fails, create no socket, schedule no reconnect
\* timer and leave the handle, the counter and the handler registry as they
\* were.
C6_Step ==
    /\ (lastOp'.op = "connect" /\ ~isEnabled) => UNCHANGED transport
    /\ lastOp'.op = "probeFailed"
       => (/\ UNCHANGED <<isEnabled, socket, orphans, reconnectAttempts,
                          eventHandlers, timers>>
           /\ scheduled' = <<>>
           /\ probes' = probes - 1)
C6_ConnectIsNoOp == [][C6_Step]_vars
C6_Witness ==
    /\ lastOp.op = "probeFailed"
    /\ reconnectAttempts > 0
    /\ isEnabled

\* C7: the delay handed to setTimeout for the attempt that brings the
\* counter to n is min(1000 * 1.5^(n-1), 30000) ms: 1000, 1500, 2250, 3375
\* and 5062.5 ms for n = 1..5, and never more than 30000 ms.  A delay is the
\* fraction <<numerator, denominator>>; DelayTable is in sixteenths of a millisecond.
DelayTable == <<16000, 24000, 36000, 54000, 81000>>
C7_DelayIs(d, n) ==
    LET exact == <<1000 * Pow(3, n - 1), Pow(2, n - 1)>>
    IN  /\ d[1] <= 30000 * d[2]
        /\ d[1] * exact[2] <= exact[1] * d[2]
        /\ \/ d[1] * exact[2] = exact[1] * d[2]
           \/ d[1] = 30000 * d[2]
        /\ n <= 5 => d[1] * 16 = DelayTable[n] * d[2]
C7_BackoffDelay ==
    \A i \in 1..Len(scheduled) : C7_DelayIs(scheduled[i], reconnectAttempts)
C7_Witness ==
    /\ scheduled = << <<30000, 1>> >>
    /\ reconnectAttempts = 10

\* C8 (as claimed): an unclean close while enabled with the counter at 0
\* schedules a reconnect after 1000 ms; when that reconnect attempt fails,
\* by its probe failing or by its socket closing uncleanly before it opened,
\* a further reconnect is scheduled after 1500 ms.
C8_FirstDrop ==
    (lastOp'.op = "onclose" /\ ~lastOp'.ok /\ isEnabled
     /\ reconnectAttempts = 0)
    => scheduled' = << <<1000, 1>> >>
\* The handle still refers to the connection that dropped, one attempt has
\* been counted since it opened, and the timer of that attempt has just
\* fired and called connect(), whose probe is the only one in flight.
C8_RetryProbing ==
    /\ lastOp = Op("reconnectTimer", TRUE)
    /\ socket = Sock("CLOSED", TRUE)
    /\ LiveOrphans = 0
    /\ probes = 1
    /\ timers = 0
    /\ reconnectAttempts = 1
C8_RetrySocketFails ==
    (lastOp'.op = "onclose" /\ ~lastOp'.ok /\ isEnabled
     /\ reconnectAttempts = 1
     /\ socket.readyState = "CONNECTING" /\ socket'.readyState = "CLOSED")
    => scheduled' = << <<3000, 2>> >>
C8_AsClaimedStep ==
    /\ C8_FirstDrop
    /\ C8_RetrySocketFails
    /\ (C8_RetryProbing /\ lastOp'.op = "probeFailed")
       => scheduled' = << <<3000, 2>> >>
C8_RetryAfterAnyFailure == [][C8_AsClaimedStep]_vars

\* C8 (amended): as above for the unclean close of the new socket; when the
\* probe of the reconnect attempt fails, no further reconnect is scheduled.
C8_AmendedStep ==
    /\ C8_FirstDrop
    /\ C8_RetrySocketFails
    /\ (C8_RetryProbing /\ lastOp'.op = "probeFailed")
       => (scheduled' = <<>> /\ timers' = timers
           /\ reconnectAttempts' = reconnectAttempts)
C8_RetryAfterSocketFailure == [][C8_AmendedStep]_vars
C8_Witness ==
    /\ lastOp = Op("onclose", FALSE)
    /\ scheduled = << <<3000, 2>> >>
    /\ reconnectAttempts = 2
    /\ socket.readyState = "CLOSED"
    /\ ~socket.opened

(***************************************************************************)
(* Properties of the router and the store, checked under SpecRouter.       *)
(***************************************************************************)

\* C9: a frame that is no JSON, or whose handler raises, changes neither the
\* conversation store nor the transport: the socket stays OPEN, the handler
\* registry is as before, and so is everything a later frame is handled
\* from.
C9_Step ==
    (lastOp'.op \in {"onmessage", "onmessageBadFrame", "onmessageError"}
     /\ ~lastOp'.ok)
    => (/\ UNCHANGED store
        /\ UNCHANGED transport
        /\ socket'.readyState = "OPEN"
        /\ notified' = <<>> /\ delivered' = <<>> /\ sent' = <<>>)
C9_BadFrameIsDropped == [][C9_Step]_vars
C9_Witness ==
    /\ lastOp = Op("onmessage", FALSE)
    /\ Len(conversations) > 0
    /\ Len(conversations[1].messages) > 0
    /\ conversations[1].messages[1].content = UNDEFINED

\* C10 (as claimed): a message_chunk or message_complete frame that names an
\* existing conversation and a message id that conversation does not hold
\* makes updateMessage append exactly one message with that id.
C10_Step ==
    \A frame \in Frames(Cur) :
        LET ci == FindIndex(conversations, frame.conversationId) IN
        (/\ frame.wellFormed
         /\ frame.type \in {"message_chunk", "message_complete"}
         /\ frame.type = "message_complete" => frame.hasMessage
         /\ ci # 0
         /\ FindIndex(conversations[ci].messages, frame.id) = 0
         /\ socket.readyState = "OPEN"
         /\ Receive(frame))
        => (/\ Len(conversations'[ci].messages)
                = Len(conversations[ci].messages) + 1
            /\ Cardinality({k \in 1..Len(conversations'[ci].messages) :
                    conversations'[ci].messages[k].id = frame.id}) = 1)
C10_UpdateCreatesMissingMessage == [][C10_Step]_vars

(***************************************************************************)
(* Properties of the turn orchestration, checked under SpecTurns.          *)
(***************************************************************************)
\* The turn status of the conversation as every reader selects it.
TurnStatus(cs) ==
    IF cs[propConversationId].status = "absent"
    THEN "idle"
    ELSE cs[propConversationId].status

controls == <<isAutoMode, autoModeRef, strayIntervals, timeouts>>

\* C11 (as claimed): when a next-turn request has put the conversation into
\* generating, a message_complete frame for it that carries a message id
\* the conversation does not hold appends that message and returns the turn
\* status to idle.
C11_Step ==
    \A frame \in TurnFrames(Cur) :
        (/\ frame.type = "message_complete"
         /\ Mounted
         /\ FindIndex(conversations[FindIndex(conversations,
                propConversationId)].messages, frame.id) = 0
         /\ TurnStatus(conversationStatus) = "generating"
         /\ socket.readyState = "OPEN"
         /\ Receive(frame))
        => LET ci == FindIndex(conversations, propConversationId)
               n == Len(conversations[ci].messages)
           IN  /\ Len(conversations'[ci].messages) = n + 1
               /\ conversations'[ci].messages[n + 1].id = frame.id
               /\ TurnStatus(conversationStatus') = "idle"
C11_CompletionAppendsAndIdles == [][C11_Step]_vars

\* C12 (as claimed): the turn status changes only along idle->generating,
\* idle->paused, generating->paused, generating->idle, paused->idle and
\* any->stopped; never from paused straight to generating.
StatusEdges ==
    {<<"idle", "generating">>, <<"idle", "paused">>,
     <<"generating", "paused">>, <<"generating", "idle">>,
     <<"paused", "idle">>}
    \cup {<<st, "stopped">> : st \in Statuses}
C12_Step ==
    \/ TurnStatus(conversationStatus') = TurnStatus(conversationStatus)
    \/ <<TurnStatus(conversationStatus), TurnStatus(conversationStatus')>>
            \in StatusEdges
C12_StatusFollowsGraph == [][C12_Step]_vars

\* C13 (as claimed): once the turn status is stopped it is stopped in every
\* later state.
C13_Step ==
    TurnStatus(conversationStatus) = "stopped"
    => TurnStatus(conversationStatus') = "stopped"
C13_StoppedIsTerminal == [][C13_Step]_vars

\* C14 (as claimed): an auto-mode tick acts on the turn status as it is when
\* the tick fires: it sends one multi_agent_next_turn when that status is
\* idle, and when it is generating, paused or stopped it sends nothing and
\* changes neither the store nor the controls.
C14_Step ==
    lastOp'.op = "autoModeTick"
    => IF TurnStatus(conversationStatus) = "idle"
       THEN sent' = << <<"multi_agent_next_turn", propConversationId>> >>
       ELSE sent' = <<>> /\ UNCHANGED store /\ UNCHANGED controls
C14_TickActsOnCurrentStatus == [][C14_Step]_vars

\* A step that starts an auto-mode cycle: the Auto control, or Resume while
\* auto mode is on.
C15_StartsCycle ==
    \/ lastOp'.op = "startAutoMode"
    \/ lastOp' = Op("handlePause", TRUE) /\ isAutoMode
C15_SettleTimerSet ==
    /\ \E st \in Statuses :
            timeouts' = [timeouts EXCEPT ![<<"startAutoMode", st>>] = @ + 1]
    /\ \A i \in 1..Len(sent') : sent'[i][1] # "multi_agent_next_turn"

\* C15 (as claimed): a start cycle sends exactly one register_persona for
\* each participant, all of them before the first multi_agent_next_turn of
\* the cycle, which is left to the callback of the settle timer.
C15_AsClaimedStep ==
    C15_StartsCycle
    => /\ sent' = [i \in 1..Len(participants) |->
                        <<"register_persona", participants[i]>>]
       /\ C15_SettleTimerSet
C15_AmendedStep ==
    C15_StartsCycle
    => /\ sent' = [i \in 1..Len(SelectSeq(participants,
                                          LAMBDA x : x \in personas)) |->
                        <<"register_persona",
                          SelectSeq(participants,
                                    LAMBDA x : x \in personas)[i]>>]
       /\ C15_SettleTimerSet
C16_Step ==
    \A frame \in TurnFrames(Cur) :
        (/\ frame.type \in {"multi_agent_persona_not_found",
                            "multi_agent_no_next_speaker"}
         /\ Mounted
         /\ socket.readyState = "OPEN"
         /\ Receive(frame))
        => /\ notified' # <<>>
           /\ TurnStatus(conversationStatus') = "idle"
           /\ conversations' = conversations
C16_NoSpeakerRevertsToIdle == [][C16_Step]_vars

\* C17: the ids of the messages of one conversation are pairwise distinct,
\* and the sequence of ids only ever grows at its end, by one id in a step
\* of addMessage: a message update changes neither the ids nor their order,
\* so the messages are retrieved in the order they were appended.
MessageIds(conversation) ==
    [k \in 1..Len(conversation.messages) |-> conversation.messages[k].id]
C17_Step ==
    /\ \A i \in 1..Len(conversations) :
        LET before == MessageIds(conversations[i])
            after == MessageIds(conversations'[i])
        IN  /\ \A j, k \in 1..Len(after) : after[j] = after[k] => j = k
            /\ \/ after = before
               \/ /\ lastOp' = Op("addMessage", TRUE)
                  /\ Len(after) = Len(before) + 1
                  /\ SubSeq(after, 1, Len(before)) = before
    /\ lastOp' = Op("addMessage", TRUE)
       => \E i \in 1..Len(conversations) :
            Len(conversations'[i].messages)
                = Len(conversations[i].messages) + 1
C17_IdsDistinctInAppendOrder == [][C17_Step]_vars
C17_Witness ==
    /\ lastOp = Op("onmessage", TRUE)
    /\ Len(conversations) = 1
    /\ Len(conversations[1].messages) = 2
    /\ conversations[1].messages[1].content = LongText
    /\ conversations[1].messages[1].id # conversations[1].messages[2].id

\* C18: addMessage of a user message to an existing conversation sets the
\* turn status of that conversation to idle and its lastMessageId to the id
\* of the new message; addMessage of an agent or system message leaves the
\* turn status record as it was; addMessage for a conversation that does not
\* exist changes nothing.
C18_Step ==
    /\ lastOp' = Op("addMessage", TRUE)
       => \E c \in ConvIds :
            LET ci == FindIndex(conversations, c)
                n == Len(conversations[ci].messages)
                new == conversations'[ci].messages[n + 1]
            IN  /\ ci # 0
                /\ Len(conversations'[ci].messages) = n + 1
                /\ new.senderType = "user"
                   => conversationStatus' =
                        [conversationStatus EXCEPT ![c] =
                            [status |-> "idle", lastMessageId |-> new.id]]
                /\ new.senderType \in {"agent", "system"}
                   => conversationStatus' = conversationStatus
    /\ lastOp' = Op("addMessage", FALSE) => UNCHANGED store
C18_AddMessageStatusEffect == [][C18_Step]_vars
C18_Witness ==
    /\ lastOp = Op("addMessage", TRUE)
    /\ Len(conversations) = 1
    /\ Len(conversations[1].messages) = 2
    /\ conversations[1].messages[1].senderType = "user"
    /\ conversations[1].messages[2].senderType = "system"
    /\ conversationStatus[conversations[1].id].lastMessageId
            = conversations[1].messages[1].id

\* C19: an error frame that names a message of an existing conversation
\* (details.messageId or details.id, with details.conversationId) puts the
\* error string into that message's metadata and raises a notification; the
\* content of the message, the number of messages and the turn status stay
\* as they were.  An error frame that names no message leaves the
\* conversation store as it was.
NamesMessage(frame) ==
    LET ci == FindIndex(conversations, frame.conversationId)
    IN  /\ frame.detailsKey # "none"
        /\ ci # 0
        /\ FindIndex(conversations[ci].messages, frame.id) # 0
C19_Step ==
    lastOp'.op = "onmessageError"
    => \A frame \in {f \in ErrorFrames(Cur) :
                        f.detailsKey = "none" \/ NamesMessage(f)} :
        Receive(frame)
        => /\ notified' = <<"error">>
           /\ conversationStatus' = conversationStatus
           /\ uuids' = uuids
           /\ IF NamesMessage(frame)
              THEN LET ci == FindIndex(conversations, frame.conversationId)
                       mi == FindIndex(conversations[ci].messages, frame.id)
                   IN  /\ conversations'[ci].messages[mi].metadata.error
                       /\ conversations'[ci].messages[mi].content
                            = conversations[ci].messages[mi].content
                       /\ Len(conversations'[ci].messages)
                            = Len(conversations[ci].messages)
                       /\ \A k \in 1..Len(conversations[ci].messages) :
                            k # mi => conversations'[ci].messages[k]
                                        = conversations[ci].messages[k]
              ELSE conversations' = conversations
C19_ErrorAttachesToMessage == [][C19_Step]_vars
C19_Witness ==
    /\ lastOp = Op("onmessageError", TRUE)
    /\ notified = <<"error">>
    /\ Len(conversations) = 1
    /\ Len(conversations[1].messages) = 2
    /\ conversations[1].messages[2].metadata.error
    /\ conversations[1].messages[2].content = Placeholder
    /\ ~conversations[1].messages[1].metadata.error
    /\ conversationStatus[conversations[1].id].status = "idle"

(***************************************************************************)
(* Properties of the routing, checked under SpecDispatch.                  *)
(***************************************************************************)

\* C20: a decoded frame takes exactly one route.  A frame whose type is
\* message_chunk, message_complete or error goes to its built-in handler
\* and to no callback.  A frame of any other type is handed unchanged,
\* once each and in the order of registration, to the callbacks registered
\* for that type through on(), to none when none is registered, and leaves
\* the conversation store and the notifications as they were.
C20_Step ==
    \A frame \in Frames(Cur) :
        (/\ frame.wellFormed
         /\ socket.readyState = "OPEN"
         /\ Receive(frame))
        => IF frame.type \in {"message_chunk", "message_complete", "error"}
           THEN delivered' = <<>>
           ELSE /\ UNCHANGED store
                /\ notified' = <<>>
                /\ UNCHANGED eventHandlers
                /\ IF frame.type \in SubscriberTypes
                   THEN delivered' =
                            [i \in 1..Len(eventHandlers[frame.type]) |->
                                <<frame.type, eventHandlers[frame.type][i],
                                  frame>>]
                   ELSE delivered' = <<>>
C21_Step ==
    /\ \A event \in SubscriberTypes, callback \in Subscribers \cup {"none"} :
        /\ Apply(Off(Cur, event, callback), Op("off", callback # "none"))
           => /\ \A e \in SubscriberTypes \ {event} :
                    eventHandlers'[e] = eventHandlers[e]
              /\ IF callback = "none"
                 THEN eventHandlers'[event] = <<>>
                 ELSE eventHandlers'[event]
                        = SelectSeq(eventHandlers[event],
                                    LAMBDA cb : cb # callback)
              /\ delivered' = <<>>
        /\ (callback # "none"
            /\ Apply(On(Cur, event, callback), Op("on", TRUE)))
           => eventHandlers' =
                [eventHandlers EXCEPT ![event] = Append(@, callback)]
    /\ \A frame \in Frames(Cur) :
        (/\ frame.type \in SubscriberTypes
         /\ socket.readyState = "OPEN"
         /\ Receive(frame))
        => /\ [i \in 1..Len(delivered') |-> delivered'[i][2]]
                = eventHandlers[frame.type]
           /\ \A i \in 1..Len(delivered') : delivered'[i][1] = frame.type
C21_OffRemovesWhatItNames == [][C21_Step]_vars
C21_Witness ==
    /\ lastOp = Op("off", TRUE)
    /\ eventHandlers["connected"] = <<"cb1", "cb3">>
    /\ eventHandlers["persona_registered"] = <<"cb2">>

(***************************************************************************)
(* Properties of the availability monitor, checked under SpecMonitor.      *)
(***************************************************************************)

\* C22 (as claimed): a probe of the availability monitor enables the
\* transport and calls connect() exactly when its result changes the
\* observed reachability from unreachable to reachable, and disables the
\* transport whenever its result changes it from reachable to unreachable,
\* by a response that is not OK or by a fetch that raised.
C22_Step ==
    lastOp'.op \in {"checkBackendStatus", "checkBackendStatusCatch"}
    => /\ (~isConnected /\ isConnected') => (isEnabled' /\ probes' > probes)
       /\ ~(~isConnected /\ isConnected') => probes' = probes
       /\ (isConnected /\ ~isConnected') => ~isEnabled'
C22_MonitorActsOnChange == [][C22_Step]_vars

(***************************************************************************)
(* Further properties of the turn orchestration, checked under SpecTurns.  *)
(***************************************************************************)
\* The timers of auto mode: the settle timers of startAutoMode and the
\* intervals they create.
SettleTimers(tm) ==
    SumOver([st \in Statuses |-> tm[<<"startAutoMode", st>>]], Statuses)
Intervals(ref, stray) ==
    SumOver(stray, Statuses) + (IF ref # "null" THEN 1 ELSE 0)
RequestsTurn(envelopes) ==
    \E i \in 1..Len(envelopes) : envelopes[i][1] = "multi_agent_next_turn"

\* C23 (as claimed): when stopAutoMode or the stop action has run, no settle
\* timer and no interval of auto mode is left, also when it ran during the
\* settle delay; no timer of auto mode requests a turn while auto mode is
\* off; and there is never more than one auto-mode interval.
C23_Step ==
    /\ lastOp'.op \in {"stopAutoMode", "handleStop"}
       => (SettleTimers(timeouts') = 0
           /\ Intervals(autoModeRef', strayIntervals') = 0)
    /\ (~isAutoMode /\ lastOp'.op \in {"startAutoModeTimeout", "autoModeTick"})
       => ~RequestsTurn(sent')
    /\ Intervals(autoModeRef', strayIntervals') <= 1
C23_StopCancelsAutoTimers == [][C23_Step]_vars

\* C24 (as claimed): no multi_agent_next_turn is sent for the conversation
\* while its turn status is generating, whether by the Next Turn control,
\* by an auto-mode timer or by the timer set after a user message.
C24_Step ==
    RequestsTurn(sent') => TurnStatus(conversationStatus) # "generating"
C24_NoRequestWhileGenerating == [][C24_Step]_vars

\* C25 (as claimed): Resume sets the turn status to idle; when auto mode
\* was on it stays on and a settle timer is set, and when that timer fires
\* next, one multi_agent_next_turn is sent, the turn status goes from idle
\* to generating and the interval is running again.
C25_ResumeTimer == <<"startAutoMode", "paused">>
C25_Step ==
    /\ lastOp' = Op("handlePause", TRUE)
       => /\ TurnStatus(conversationStatus') = "idle"
          /\ isAutoMode
             => (isAutoMode'
                 /\ timeouts'[C25_ResumeTimer] = timeouts[C25_ResumeTimer] + 1)
    /\ (/\ lastOp = Op("handlePause", TRUE)
        /\ isAutoMode
        /\ lastOp'.op = "startAutoModeTimeout"
        /\ timeouts'[C25_ResumeTimer] = timeouts[C25_ResumeTimer] - 1)
       => /\ sent' = << <<"multi_agent_next_turn", propConversationId>> >>
          /\ TurnStatus(conversationStatus) = "idle"
          /\ TurnStatus(conversationStatus') = "generating"
          /\ autoModeRef' # "null"
C25_ResumeRestartsAutoMode == [][C25_Step]_vars

(***************************************************************************)
(* Properties of message updates, checked under SpecUpdates.               *)
(***************************************************************************)
\* The conversation id handleMessageChunk and handleMessageComplete pass to
\* updateMessage for a frame.
C26_Conversation(frame) ==
    IF frame.type = "message_complete" /\ ~Truthy(frame.conversationId)
    THEN frame.id
    ELSE frame.conversationId
\* The frame targets an existing message and is a completion: its content
\* is not empty and differs from the prior content, the prior content is
\* the placeholder or more than 20 characters shorter, and its metadata
\* carries isGenerating = false.
C26_Completes(frame) ==
    LET ci == FindIndex(conversations, C26_Conversation(frame))
        mi == FindIndex(conversations[ci].messages, frame.id)
        prior == conversations[ci].messages[mi].content
    IN  /\ ci # 0
        /\ mi # 0
        /\ frame.content # ""
        /\ frame.content # prior
        /\ \/ prior = Placeholder
           \/ Len(frame.content) - Len(prior) > 20
        /\ frame.type = "message_complete"
        /\ frame.metadata.defined
        /\ frame.metadata.isGenerating = "false"

\* C26: in every state, a message update changes the turn status record
\* of a conversation in one case only: it targets an existing message, it
\* is a completion and its metadata carries isGenerating = false; the
\* record then becomes idle with lastMessageId the id of that message.
\* Every other update leaves all turn status records as they were.
C26_UpdateSetsIdleOnCompletion ==
    \A frame \in UpdateFrames(Cur) :
        LET after == OnMessage(Cur, frame).t.conversationStatus
        IN  IF C26_Completes(frame)
            THEN after =
                    [conversationStatus EXCEPT ![C26_Conversation(frame)] =
                        [status |-> "idle", lastMessageId |-> frame.id]]
            ELSE after = conversationStatus
C26_Witness ==
    /\ lastOp = Op("onmessage", TRUE)
    /\ Len(conversations) = 1
    /\ Len(conversations[1].messages) = 2
    /\ conversations[1].messages[1].content = MidText
    /\ conversations[1].messages[1].metadata = Meta("false", FALSE)
    /\ conversations[1].messages[1].senderType = "user"
    /\ conversationStatus[conversations[1].id]
            = [status |-> "generating",
               lastMessageId |-> conversations[1].messages[1].id]

(***************************************************************************)
(* Properties of the turn orchestration on inbound turn events, checked    *)
(* under SpecTurns.                                                        *)
(***************************************************************************)

\* C27 (as claimed): a multi_agent_next_turn frame makes the client send
\* exactly one generate_message for the named speaker when the persona
\* store holds a persona with that id; when it holds none, nothing is sent
\* and an error notification is raised.
C27_Step ==
    \A frame \in TurnFrames(Cur) :
        (/\ frame.type = "multi_agent_next_turn"
         /\ socket.readyState = "OPEN"
         /\ Receive(frame))
        => IF frame.id \in personas
           THEN /\ Len(sent') = 1
                /\ sent'[1][1] = "generate_message"
           ELSE /\ sent' = <<>>
                /\ notified' = <<"error">>
C27_NextTurnGeneratesMessage == [][C27_Step]_vars

(***************************************************************************)
(* Replay of a completion, checked under SpecRouter.                       *)
(***************************************************************************)

\* C28: in every state of the store, handling the same message_complete
\* frame twice in a row leaves the conversations (the ids, the order, the
\* content and the metadata of their messages) and the turn status records
\* as handling it once does.
C28_ReplayIsIdempotent ==
    \A frame \in {f \in Frames(Cur) : f.type = "message_complete"} :
        LET once == OnMessage(Cur, frame).t
            twice == OnMessage(once, frame).t
        IN  /\ twice.conversations = once.conversations
            /\ twice.conversationStatus = once.conversationStatus
C28_Witness ==
    /\ lastOp = Op("onmessage", TRUE)
    /\ Len(conversations) = 1
    /\ Len(conversations[1].messages) = 1
    /\ conversations[1].messages[1].senderType = "agent"
    /\ conversations[1].messages[1].content = LongText
    /\ conversations[1].messages[1].metadata = Meta("false", FALSE)
    /\ conversationStatus[conversations[1].id]
            = [status |-> "idle",
               lastMessageId |-> conversations[1].messages[1].id]

(***************************************************************************)
(* Properties of turn requests without a connection, checked under         *)
(* SpecTurnsOffline.                                                       *)
(***************************************************************************)

\* C29 (as claimed): whenever the turn status goes from idle to generating,
\* a multi_agent_next_turn envelope was handed to an OPEN socket in that
\* step; when send() finds no OPEN socket the status does not end up
\* generating.
C29_Step ==
    (TurnStatus(conversationStatus) = "idle"
     /\ TurnStatus(conversationStatus') = "generating")
    => (RequestsTurn(sent') /\ socket.readyState = "OPEN")
C29_GeneratingMeansRequested == [][C29_Step]_vars

(***************************************************************************)
(* Properties of the conversation collection, checked under SpecStore.     *)
(***************************************************************************)

\* C30 (as claimed): after any sequence of createConversation, with or
\* without an explicit id, and createBranch, the ids of the conversations
\* in the collection are pairwise distinct.
C30_ConversationIdsDistinct ==
    \A i, j \in 1..Len(conversations) :
        conversations[i].id = conversations[j].id => i = j
====
